---- MODULE Spec2Model ----
(***************************************************************************)
(* Model of src/src/App.jsx: the session store (AuthProvider), the login   *)
(* page (LoginPage), the dashboard's tabs and the three cached queries     *)
(* (useUsers, useSales, useActivityData) as they are driven through        *)
(* useQuery of @tanstack/react-query with the options the source passes.   *)
(*                                                                         *)
(* Strings the code inspects (the e-mail, the password) are sequences of   *)
(* one-character strings.  "Absent" (null / undefined) is the empty tuple  *)
(* for the token and the empty set for optional values; a present optional *)
(* value v is the singleton {v}.                                           *)
(*                                                                         *)
(* What the source leaves to its libraries is modelled by their documented *)
(* behaviour for the options the source passes:                            *)
(*  - React commits the state updates of one handler or continuation       *)
(*    together (setToken and setUser in login and logout are one render);  *)
(*  - useQuery starts a fetch for a mounting observer or a window focus    *)
(*    only when the entry is stale, and then joins a fetch in flight;      *)
(*    refetch() restarts a running fetch of an entry that holds a value;   *)
(*    a failed fetch is retried (no retry option is passed, so the library *)
(*    default applies) unless its last observer has gone; a failure keeps  *)
(*    the value of the last success.                                       *)
(* The removal of unobserved entries after cacheTime is not modelled: the  *)
(* clock of the model stops well before the five minutes.                  *)
(***************************************************************************)
EXTENDS Integers, Sequences, FiniteSets, TLC

VARIABLES
    token,      \* AuthProvider: useState(null), the session token
    user,       \* AuthProvider: useState(null), the profile
    error,      \* LoginPage: the error banner ('' when none)
    isLoading,  \* LoginPage: a submission is pending
    pending,    \* handleSubmit calls suspended in their 800 ms delay, oldest first
    activeTab,  \* Dashboard: the selected tab
    now,        \* Date.now(), in ms
    cache,      \* the query cache: key -> query entry
    issued,     \* history: the tokens login has minted so far
    logins,     \* history: number of successful login calls
    calls,      \* history: keys whose producer the last step invoked, in order
    ev,         \* history: the last step (operation, inputs, result)
    env,        \* the environment explored: how far it lets a behaviour go
    legacy,     \* the hand-written Dashboard of the second file: its state
    probe       \* the last call of fetchJson or of the activity generator

vars == <<token, user, error, isLoading, pending, activeTab,
          now, cache, issued, logins, calls, ev, env, legacy, probe>>

-----------------------------------------------------------------------------
(* Bounds of the model *)

MaxTicks == 4
MaxUserTicks == 2
MaxLogins == 2
MaxPending == 2
MaxSuperseded == 1

-----------------------------------------------------------------------------
(* Program constants *)

StaleTimeDefault == 30000
StaleTimeMock == 60000
RetryLimit == 3

NoToken == <<>>
None == {}
Some(v) == {v}
The(s) == CHOOSE v \in s : TRUE

EmptyString == <<>>
InvalidCredentials == "Invalid credentials"
LoginFailed == "Login failed"

(* The inputs typed into the login form. *)
Emails == { EmptyString,
            <<"a", "@", "b", "@", "c">>,
            <<"b">> }
SomeEmails == { EmptyString, <<"a", "@", "b", "@", "c">> }
Passwords == { EmptyString, <<"p">> }

-----------------------------------------------------------------------------
(* Time: the clock moves along the instants around the staleness thresholds,
   0, 29999, 30000, 59999, 60000, ... *)

Instant(i) ==
    IF i % 2 = 0 THEN (i \div 2) * StaleTimeDefault
    ELSE ((i + 1) \div 2) * StaleTimeDefault - 1

NextInstant(t) ==
    IF t % StaleTimeDefault = StaleTimeDefault - 1 THEN t + 1
    ELSE t + StaleTimeDefault - 1

-----------------------------------------------------------------------------
(* AuthProvider *)

Truthy(s) == s # EmptyString

RECURSIVE IndexOf(_, _, _)
IndexOf(s, ch, i) ==
    IF i > Len(s) THEN 0
    ELSE IF s[i] = ch THEN i
    ELSE IndexOf(s, ch, i + 1)

(* email.split('@')[0] *)
SplitFirst(s, ch) ==
    LET at == IndexOf(s, ch, 1)
    IN  IF at = 0 THEN s ELSE SubSeq(s, 1, at - 1)

(* `mock_token_${Date.now()}_${Math.random()...}` *)
MockToken(t, r) == <<"mock_token", t, r>>

(* The outcomes of Math.random() at a mint, named in the order they first
   appear: a draw not seen before, or the draw of a token minted earlier in
   the same millisecond (the only way two mints give the same token). *)
RandomDraws(seen, t) ==
    {Cardinality(seen) + 1} \cup { tok[3] : tok \in { x \in seen : x[2] = t } }

(* login(email, password): the new session and the returned value. *)
LoginOrMutant(s, em, pw, t, r) ==
    IF Truthy(em) \/ Truthy(pw)
    THEN [token |-> MockToken(t, r),
          user |-> Some([email |-> em, name |-> SplitFirst(em, "@")]),
          result |-> [success |-> TRUE, error |-> None]]
    ELSE [token |-> s.token, user |-> s.user,
          result |-> [success |-> FALSE, error |-> Some(InvalidCredentials)]]

LoginWholeNameMutant(s, em, pw, t, r) ==
    IF Truthy(em) /\ Truthy(pw)
    THEN [token |-> MockToken(t, r),
          user |-> Some([email |-> em, name |-> em]),
          result |-> [success |-> TRUE, error |-> None]]
    ELSE [token |-> s.token, user |-> s.user,
          result |-> [success |-> FALSE, error |-> Some(InvalidCredentials)]]

login(s, em, pw, t, r) ==
    IF Truthy(em) /\ Truthy(pw)
    THEN [token |-> MockToken(t, r),
          user |-> Some([email |-> em, name |-> SplitFirst(em, "@")]),
          result |-> [success |-> TRUE, error |-> None]]
    ELSE [token |-> s.token, user |-> s.user,
          result |-> [success |-> FALSE, error |-> Some(InvalidCredentials)]]

LogoutKeepsUserMutant(s) == [token |-> NoToken, user |-> s.user]

LogoutKeepsTokenMutant(s) == [token |-> s.token, user |-> None]

logout(s) == [token |-> NoToken, user |-> None]

isAuthenticated(tok) == tok # NoToken

-----------------------------------------------------------------------------
(* Fetch client and mock generators *)

RandomDen == 1000

(* The responses the users endpoint is given to answer with: status and body text. *)
Responses ==
    { [status |-> 200, text |-> "[]"],
      [status |-> 200, text |-> "[{id:1}]"],
      [status |-> 200, text |-> "<html>"],
      [status |-> 404, text |-> "Not Found"] }

(* Response.ok *)
ResponseOk(resp) == resp.status >= 200 /\ resp.status <= 299

(* Response.json(): the parsed body, or a SyntaxError. *)
JsonParse(text) ==
    CASE text = "[]" -> [threw |-> FALSE, value |-> <<>>, message |-> <<>>]
      [] text = "[{id:1}]" -> [threw |-> FALSE, value |-> <<[id |-> 1]>>, message |-> <<>>]
      [] text = "[{id:1},{id:2}]" ->
            [threw |-> FALSE, value |-> <<[id |-> 1], [id |-> 2]>>, message |-> <<>>]
      [] OTHER -> [threw |-> TRUE, value |-> <<>>, message |-> <<"SyntaxError">>]

(* fetchJson(url, token): what the call settles with, given the response. *)
fetchJsonIgnoresStatusMutant(resp, tok) == JsonParse(resp.text)

fetchJson(resp, tok) ==
    IF ~ResponseOk(resp)
    THEN [threw |-> TRUE, value |-> <<>>, message |-> <<"HTTP ", resp.status>>]
    ELSE JsonParse(resp.text)

(* headers: Content-Type always, Authorization: `Bearer ${token}` if (token) *)
RequestHeaders(tok) ==
    IF Truthy(tok)
    THEN ("Content-Type" :> <<"application/json">>) @@ ("Authorization" :> <<"Bearer ", tok>>)
    ELSE ("Content-Type" :> <<"application/json">>)

(* One invocation of fetchJson: the requests it sends with fetch, and what it
   settles with when the request is answered by resp. *)
fetchJsonCall(resp, tok) ==
    [requests |-> <<[url |-> "/users", headers |-> RequestHeaders(tok)]>>,
     result |-> fetchJson(resp, tok)]

(* fetchJson(url) of the second file: no token, no headers. *)
legacyFetchJson(resp) ==
    IF ~ResponseOk(resp)
    THEN [threw |-> TRUE, value |-> <<>>, message |-> <<"HTTP ", resp.status>>]
    ELSE JsonParse(resp.text)

legacyFetchJsonCall(resp) ==
    [requests |-> <<[url |-> "/users", headers |-> [h \in {} |-> <<>>]]>>,
     result |-> legacyFetchJson(resp)]

(* The responses and tokens fetchJson is called with on its own. *)
Statuses == {200, 201, 204, 299, 300, 304, 400, 401, 404, 500}
Bodies == {"[]", "[{id:1}]", "[{id:1},{id:2}]", "<html>", ""}
ProbeResponses == { [status |-> st, text |-> tx] : st \in Statuses, tx \in Bodies }
ProbeTokens == {NoToken, MockToken(0, 1)}

(* useSales queryFn *)
SalesData ==
    [labels |-> <<"Jan", "Feb", "Mar", "Apr", "May", "Jun",
                  "Jul", "Aug", "Sep", "Oct", "Nov", "Dec">>,
     revenue |-> <<45000, 52000, 48000, 61000, 55000, 67000,
                   72000, 68000, 75000, 82000, 79000, 88000>>,
     expenses |-> <<32000, 35000, 33000, 42000, 38000, 45000,
                    48000, 46000, 51000, 55000, 53000, 58000>>]

Weeks == 12
DayNames == <<"Sun", "Mon", "Tue", "Wed", "Thu", "Fri", "Sat">>

(* Math.random() is n / RandomDen for the n the source rnd gives to a cell;
   Math.floor(Math.random() * m) is then (n * m) \div RandomDen. *)
RandomSources ==
    { [i \in 0 .. Weeks * 7 - 1 |-> 0],
      [i \in 0 .. Weeks * 7 - 1 |-> RandomDen - 1] }

(* The sequences of draws the generator is called with on its own: the draw
   of cell i is (offset + stride * i) modulo RandomDen. *)
Offsets == {0, 7, RandomDen - 1}
Strides == {0, 1, 11, 37, 97, 113, RandomDen - 1}
ProbeRandomSources ==
    { [i \in 0 .. Weeks * 7 - 1 |-> (a + b * i) % RandomDen] :
        a \in Offsets, b \in Strides }

(* useActivityData queryFn *)
ActivityDataWeekendWideMutant(rnd) ==
    [data |-> [i \in 1 .. Weeks * 7 |->
                 LET week == (i - 1) \div 7
                     day == (i - 1) % 7
                     n == rnd[i - 1]
                 IN  [week |-> week, day |-> day, dayName |-> DayNames[day + 1],
                      value |-> (n * 100) \div RandomDen]],
     days |-> DayNames,
     weeks |-> Weeks]

ActivityData(rnd) ==
    [data |-> [i \in 1 .. Weeks * 7 |->
                 LET week == (i - 1) \div 7
                     day == (i - 1) % 7
                     n == rnd[i - 1]
                 IN  [week |-> week, day |-> day, dayName |-> DayNames[day + 1],
                      value |-> IF day = 0 \/ day = 6
                                THEN (n * 30) \div RandomDen
                                ELSE (n * 100) \div RandomDen]],
     days |-> DayNames,
     weeks |-> Weeks]

-----------------------------------------------------------------------------
(* The queries and the views that subscribe to them *)

Resources == {"users", "sales", "activity"}
Tabs == {"overview", "sales", "activity", "users"}
ComponentOrder == <<"Dashboard", "SalesReport", "ActivityHeatmap", "UsersTab">>

(* The query hook each component calls. *)
HookOf(comp) ==
    CASE comp = "Dashboard" -> "users"
      [] comp = "UsersTab" -> "users"
      [] comp = "SalesReport" -> "sales"
      [] comp = "ActivityHeatmap" -> "activity"

(* queryKey: [resource, token] *)
QueryKeyWithoutTokenMutant(res, tok) == <<res, NoToken>>

QueryKey(res, tok) == <<res, tok>>

(* enabled: !!token *)
EnabledNegatedMutant(tok) == tok = NoToken

Enabled(tok) == tok # NoToken

(* staleTime: 30000 by default, 60000 for the two mock datasets *)
StaleTimeZeroMutant(res) == 0

StaleTime(res) == IF res = "users" THEN StaleTimeDefault ELSE StaleTimeMock

RefetchOnWindowFocusOffMutant == FALSE

RefetchOnWindowFocus == TRUE

(* Dashboard: the panels the selected tab renders. *)
TabPanels(tab) ==
    CASE tab = "overview" -> {"SalesReport", "ActivityHeatmap", "UsersTab"}
      [] tab = "sales" -> {"SalesReport"}
      [] tab = "activity" -> {"ActivityHeatmap"}
      [] tab = "users" -> {"UsersTab"}

(* AuthWrapper: the dashboard is rendered exactly when authenticated. *)
Mounted(tok, tab) ==
    IF isAuthenticated(tok) THEN {"Dashboard"} \cup TabPanels(tab) ELSE {}

(* The active subscriptions: (component, key) for every mounted, enabled hook. *)
Subscriptions(tok, tab) ==
    IF Enabled(tok)
    THEN { <<comp, QueryKey(HookOf(comp), tok)>> : comp \in Mounted(tok, tab) }
    ELSE {}

ObservedKeys(tok, tab) == { p[2] : p \in Subscriptions(tok, tab) }

-----------------------------------------------------------------------------
(* The query cache, as useQuery drives it for the options above *)

IdleEntry ==
    [status |-> "idle",          \* idle | loading | error | success
     data |-> None,              \* the cached value
     fetchedUnder |-> NoToken,   \* history: the token the cached value was fetched with
     error |-> None,             \* the stored error message
     updatedAt |-> 0,            \* dataUpdatedAt
     inflight |-> 0,             \* producer calls whose result the entry awaits
     reqTok |-> NoToken,         \* the token the awaited producer call was made with
     failureCount |-> 0,         \* failed attempts of the current fetch
     retryCancelled |-> FALSE,   \* the last observer left while the fetch was running
     superseded |-> 0]           \* producer calls still running whose result is dropped

Entry(c, k) == IF k \in DOMAIN c THEN c[k] ELSE IdleEntry

Put(c, k, e) == [x \in DOMAIN c \cup {k} |-> IF x = k THEN e ELSE c[x]]

isFetching(e) == e.inflight > 0
isLoadingQuery(e) == e.status = "loading"
isError(e) == e.status = "error"
isRefetching(e) == isFetching(e) /\ ~isLoadingQuery(e)

(* An entry is stale when it holds no value or its value has reached staleTime. *)
IsStale(e, st, t) == e.data = None \/ t >= e.updatedAt + st

(* A fetch starts: the producer is called; an entry without a value shows
   loading, an entry with one keeps its status and its value. *)
StartFetchAlwaysLoadingMutant(e, tok) ==
    [e EXCEPT !.inflight = @ + 1, !.reqTok = tok, !.failureCount = 0,
              !.retryCancelled = FALSE, !.status = "loading", !.error = None]

StartFetch(e, tok) ==
    [e EXCEPT !.inflight = @ + 1, !.reqTok = tok, !.failureCount = 0,
              !.retryCancelled = FALSE,
              !.status = IF e.data = None THEN "loading" ELSE @,
              !.error = IF e.data = None THEN None ELSE @]

(* A fetch asked for by a subscription or a focus event joins the request in
   flight, if there is one.  acc is [c: the cache, calls: the producer calls]. *)
Fetch(acc, k, tok) ==
    LET e == Entry(acc.c, k)
    IN  IF isFetching(e)
        THEN [acc EXCEPT !.c = Put(acc.c, k, [e EXCEPT !.retryCancelled = FALSE])]
        ELSE [c |-> Put(acc.c, k, StartFetch(e, tok)),
              calls |-> Append(acc.calls, k)]

(* A new subscription fetches when the entry is stale. *)
Subscribe(acc, k, res, tok, t) ==
    IF IsStale(Entry(acc.c, k), StaleTime(res), t)
    THEN Fetch(acc, k, tok)
    ELSE acc

RECURSIVE SubscribeFrom(_, _, _, _, _)
SubscribeFrom(acc, i, added, tok, t) ==
    IF i > Len(ComponentOrder) THEN acc
    ELSE LET comp == ComponentOrder[i]
             mine == { p \in added : p[1] = comp }
         IN  IF mine = {}
             THEN SubscribeFrom(acc, i + 1, added, tok, t)
             ELSE SubscribeFrom(
                      Subscribe(acc, (CHOOSE p \in mine : TRUE)[2], HookOf(comp), tok, t),
                      i + 1, added, tok, t)

(* A fetch whose entry loses its last observer is not retried any more. *)
CancelRetries(c, keys) ==
    [k \in DOMAIN c |->
        IF k \in keys /\ isFetching(c[k])
        THEN [c[k] EXCEPT !.retryCancelled = TRUE]
        ELSE c[k]]

(* A render that changes the subscriptions from old to new: the subscriptions
   that went are removed, the new ones subscribe in component order. *)
Render(c, old, new, tok, t) ==
    LET oldKeys == { p[2] : p \in old }
        newKeys == { p[2] : p \in new }
    IN  SubscribeFrom([c |-> CancelRetries(c, oldKeys \ newKeys), calls |-> <<>>],
                      1, new \ old, tok, t)

(* refetch(): an explicit refetch replaces a running refetch of an entry that
   holds a value (the running call goes on, its result is dropped), joins a
   running first load, and otherwise starts a fetch. *)
Refetch(acc, k, tok) ==
    LET e == Entry(acc.c, k)
    IN  IF isFetching(e) /\ e.data # None
        THEN [c |-> Put(acc.c, k,
                        [e EXCEPT !.superseded = @ + e.inflight, !.reqTok = tok,
                                  !.inflight = 1, !.failureCount = 0,
                                  !.retryCancelled = FALSE]),
              calls |-> Append(acc.calls, k)]
        ELSE Fetch(acc, k, tok)

(* The awaited producer call settles with out = [threw, value, message]:
   success stores the value; a failure is retried RetryLimit times unless the
   retries were cancelled, and then stored as the error, the value kept. *)
WillRetry(e, out) == out.threw /\ e.failureCount < RetryLimit /\ ~e.retryCancelled

Settle(e, out, t) ==
    IF ~out.threw
    THEN [e EXCEPT !.status = "success", !.data = Some(out.value),
                   !.fetchedUnder = e.reqTok, !.error = None, !.updatedAt = t,
                   !.inflight = @ - 1, !.failureCount = 0]
    ELSE IF WillRetry(e, out)
    THEN [e EXCEPT !.failureCount = @ + 1]
    ELSE [e EXCEPT !.status = "error", !.error = Some(out.message),
                   !.inflight = @ - 1, !.failureCount = @ + 1]

(* What the producer of a key's query can settle with. *)
Outcomes(k) ==
    CASE k[1] = "users" ->
            { fetchJson(resp, Entry(cache, k).reqTok) : resp \in Responses }
      [] k[1] = "sales" ->
            { [threw |-> FALSE, value |-> SalesData, message |-> <<>>] }
      [] k[1] = "activity" ->
            { [threw |-> FALSE, value |-> ActivityData(rnd), message |-> <<>>] :
                rnd \in RandomSources }

-----------------------------------------------------------------------------
(* History of the last step *)

Event(op, arg) ==
    [op |-> op, arg |-> arg, em |-> EmptyString, pw |-> EmptyString,
     result |-> None, tokBefore |-> NoToken, live |-> FALSE, fresh |-> FALSE,
     subs |-> {}]

(* No function called yet. *)
NoProbe == [fn |-> "none", resp |-> [status |-> 0, text |-> ""],
            tok |-> NoToken, out |-> <<>>]

-----------------------------------------------------------------------------
(* The environments explored.  Each bounds what the user and the network do
   within a behaviour: the number of sessions, of submissions pending at
   once, of clock steps, the e-mails typed, the queries whose producer answers
   within the behaviour (the others are still outstanding when it ends),
   whether the users endpoint can answer with a failure, and whether the
   user operates the dashboard (tabs, refresh and retry buttons, window
   focus) or only logs in and out. *)
Environments ==
    { [name |-> "sessions", logins |-> MaxLogins, pending |-> MaxPending,
       ticks |-> 0, emails |-> SomeEmails,
       settling |-> {"users"}, failures |-> FALSE, controls |-> FALSE],
      [name |-> "dashboard", logins |-> 1, pending |-> 1,
       ticks |-> 0, emails |-> Emails,
       settling |-> Resources, failures |-> FALSE, controls |-> TRUE],
      [name |-> "users", logins |-> 1, pending |-> 1,
       ticks |-> MaxUserTicks, emails |-> SomeEmails,
       settling |-> {"users"}, failures |-> TRUE, controls |-> TRUE],
      [name |-> "mocks", logins |-> 1, pending |-> 1,
       ticks |-> MaxTicks, emails |-> SomeEmails,
       settling |-> {"sales", "activity"}, failures |-> FALSE, controls |-> TRUE] }

-----------------------------------------------------------------------------
(* Initial state: logged out, the login page shown, nothing cached *)

Init ==
    /\ token = NoToken
    /\ user = None
    /\ error = EmptyString
    /\ isLoading = FALSE
    /\ pending = <<>>
    /\ activeTab = "overview"
    /\ now = 0
    /\ cache = [k \in {} |-> IdleEntry]
    /\ issued = {}
    /\ logins = 0
    /\ calls = <<>>
    /\ ev = Event("init", "")
    /\ env \in Environments
    /\ legacy = <<>>
    /\ probe = NoProbe

-----------------------------------------------------------------------------
(* LoginPage *)

(* handleSubmit up to its await, with the values email and password the two
   fields hold (what the user has typed): the call is suspended with them. *)
HandleSubmit(op, em, pw) ==
    /\ ~isAuthenticated(token)
    /\ logins < env.logins
    /\ Len(pending) < env.pending
    /\ error' = EmptyString
    /\ isLoading' = TRUE
    /\ pending' = Append(pending, [em |-> em, pw |-> pw, live |-> TRUE])
    /\ calls' = <<>>
    /\ ev' = [Event(op, "") EXCEPT !.em = em, !.pw = pw]
    /\ UNCHANGED <<token, user, activeTab, now, cache, issued, logins, env, legacy, probe>>

(* The Sign In button: disabled={isLoading} *)
ClickSignIn(em, pw) ==
    /\ ~isLoading
    /\ HandleSubmit("clickSignIn", em, pw)

(* Enter in the password field: onKeyDown calls handleSubmit *)
PressEnter(em, pw) == HandleSubmit("pressEnter", em, pw)

(* handleSubmit after its await: login is called, then the page (if it is
   still the mounted one) shows the error and stops loading.  A successful
   login re-renders AuthWrapper: the login page goes, the dashboard and its
   panels mount. *)
CompleteSubmit ==
    /\ pending # <<>>
    /\ \E r \in RandomDraws(issued, now) :
        LET sub == Head(pending)
            out == login([token |-> token, user |-> user], sub.em, sub.pw, now, r)
            tab == IF isAuthenticated(token) THEN activeTab ELSE "overview"
            acc == Render(cache, Subscriptions(token, activeTab),
                          Subscriptions(out.token, tab), out.token, now)
            e0 == [Event("login", "") EXCEPT
                      !.em = sub.em, !.pw = sub.pw, !.live = sub.live,
                      !.tokBefore = token, !.result = Some(out.result)]
        IN  /\ token' = out.token
            /\ user' = out.user
            /\ IF out.result.success
               THEN /\ logins < env.logins
                    /\ logins' = logins + 1
                    /\ issued' = issued \cup {out.token}
                    /\ pending' = [i \in 1 .. Len(pending) - 1 |->
                                      [pending[i + 1] EXCEPT !.live = FALSE]]
                    /\ error' = EmptyString
                    /\ isLoading' = FALSE
                    /\ activeTab' = tab
                    /\ cache' = acc.c
                    /\ calls' = acc.calls
                    /\ ev' = [e0 EXCEPT
                                !.fresh = out.token \notin issued,
                                !.subs = { p[2] : p \in Subscriptions(out.token, tab)
                                                     \ Subscriptions(token, activeTab) }]
               ELSE /\ pending' = Tail(pending)
                    /\ error' = IF sub.live
                                THEN (IF out.result.error = None THEN LoginFailed
                                      ELSE The(out.result.error))
                                ELSE error
                    /\ isLoading' = IF sub.live THEN FALSE ELSE isLoading
                    /\ calls' = <<>>
                    /\ ev' = e0
                    /\ UNCHANGED <<activeTab, cache, issued, logins, env, legacy, probe>>
    /\ UNCHANGED <<now, env, legacy, probe>>

-----------------------------------------------------------------------------
(* Dashboard *)

(* The Logout button: the dashboard unmounts, a new login page mounts. *)
Logout ==
    /\ isAuthenticated(token)
    /\ LET s == logout([token |-> token, user |-> user])
           acc == Render(cache, Subscriptions(token, activeTab),
                         Subscriptions(s.token, "overview"), s.token, now)
       IN  /\ token' = s.token
           /\ user' = s.user
           /\ cache' = acc.c
           /\ calls' = acc.calls
    /\ activeTab' = "overview"
    /\ ev' = [Event("logout", "") EXCEPT !.tokBefore = token]
    /\ UNCHANGED <<error, isLoading, pending, now, issued, logins, env, legacy, probe>>

(* A tab button: the panels of the old tab unmount, those of the new one mount. *)
SetActiveTab(tab) ==
    /\ env.controls
    /\ isAuthenticated(token)
    /\ tab # activeTab
    /\ activeTab' = tab
    /\ LET old == Subscriptions(token, activeTab)
           new == Subscriptions(token, tab)
           acc == Render(cache, old, new, token, now)
       IN  /\ cache' = acc.c
           /\ calls' = acc.calls
           /\ ev' = [Event("setActiveTab", tab) EXCEPT
                        !.subs = { p[2] : p \in new \ old }]
    /\ UNCHANGED <<token, user, error, isLoading, pending,
                   now, issued, logins, env, legacy, probe>>

(* UsersTab: const { data: users = [] } = useUsers() *)
UsersOf(e) == IF e.data = None THEN <<>> ELSE The(e.data)

(* UsersTab: what users-content renders for the state of the users query. *)
UsersTabPanelEmptyFirstMutant(e) ==
    IF isLoadingQuery(e) THEN "loading"
    ELSE IF Len(UsersOf(e)) = 0 THEN "empty"
    ELSE IF isError(e) THEN "error"
    ELSE "list"

UsersTabPanel(e) ==
    IF isLoadingQuery(e) THEN "loading"
    ELSE IF isError(e) THEN "error"
    ELSE IF Len(UsersOf(e)) = 0 THEN "empty"
    ELSE "list"

(* The panel that renders the buttons of a query. *)
PanelOf(res) ==
    CASE res = "users" -> "UsersTab"
      [] res = "sales" -> "SalesReport"
      [] res = "activity" -> "ActivityHeatmap"

RefetchClicked(op, res) ==
    LET k == QueryKey(res, token)
        acc == Refetch([c |-> cache, calls |-> <<>>], k, token)
    IN  /\ env.controls
        /\ PanelOf(res) \in Mounted(token, activeTab)
        /\ Entry(acc.c, k).superseded <= MaxSuperseded
        /\ cache' = acc.c
        /\ calls' = acc.calls
        /\ ev' = Event(op, res)
        /\ UNCHANGED <<token, user, error, isLoading, pending,
                       activeTab, now, issued, logins, env, legacy, probe>>

(* A panel's Refresh button: disabled={isLoading || isFetching} *)
Refresh(res) ==
    /\ LET e == Entry(cache, QueryKey(res, token))
       IN  ~(isLoadingQuery(e) \/ isFetching(e))
    /\ RefetchClicked("refresh", res)

(* A panel's retry button, rendered when not loading and in error. *)
TryAgain(res) ==
    /\ LET e == Entry(cache, QueryKey(res, token))
       IN  ~isLoadingQuery(e) /\ isError(e)
    /\ RefetchClicked("tryAgain", res)

-----------------------------------------------------------------------------
(* Events from outside *)

ResourceOrder == <<"users", "sales", "activity">>

RECURSIVE FocusFrom(_, _, _, _, _)
FocusFrom(acc, i, keys, tok, t) ==
    IF i > Len(ResourceOrder) THEN acc
    ELSE LET res == ResourceOrder[i]
             k == QueryKey(res, tok)
         IN  IF k \in keys /\ RefetchOnWindowFocus
                /\ IsStale(Entry(acc.c, k), StaleTime(res), t)
             THEN FocusFrom(Fetch(acc, k, tok), i + 1, keys, tok, t)
             ELSE FocusFrom(acc, i + 1, keys, tok, t)

(* The window regains focus: every observed stale query is refetched. *)
Focus ==
    /\ env.controls
    /\ LET keys == ObservedKeys(token, activeTab)
           acc == FocusFrom([c |-> cache, calls |-> <<>>], 1, keys, token, now)
       IN  /\ cache' = acc.c
           /\ calls' = acc.calls
           /\ ev' = Event("focus", "")
    /\ UNCHANGED <<token, user, error, isLoading, pending,
                   activeTab, now, issued, logins, env, legacy, probe>>

(* Time passes. *)
Tick ==
    /\ now < Instant(env.ticks)
    /\ now' = NextInstant(now)
    /\ calls' = <<>>
    /\ ev' = Event("tick", "")
    /\ UNCHANGED <<token, user, error, isLoading, pending,
                   activeTab, cache, issued, logins, env, legacy, probe>>

(* The producer call an entry awaits settles. *)
Resolve(k) ==
    /\ isFetching(cache[k])
    /\ k[1] \in env.settling
    /\ \E out \in Outcomes(k) :
        /\ out.threw => env.failures
        /\ cache' = Put(cache, k, Settle(cache[k], out, now))
        /\ calls' = IF WillRetry(cache[k], out) THEN <<k>> ELSE <<>>
    /\ ev' = Event("settle", k[1])
    /\ UNCHANGED <<token, user, error, isLoading, pending,
                   activeTab, now, issued, logins, env, legacy, probe>>

(* A superseded producer call settles: its result is dropped. *)
ResolveSuperseded(k) ==
    /\ cache[k].superseded > 0
    /\ cache' = Put(cache, k, [cache[k] EXCEPT !.superseded = @ - 1])
    /\ calls' = <<>>
    /\ ev' = Event("dropped", k[1])
    /\ UNCHANGED <<token, user, error, isLoading, pending,
                   activeTab, now, issued, logins, env, legacy, probe>>

Next ==
    \/ \E em \in env.emails, pw \in Passwords : ClickSignIn(em, pw)
    \/ \E em \in env.emails, pw \in Passwords : PressEnter(em, pw)
    \/ CompleteSubmit
    \/ Logout
    \/ \E tab \in Tabs : SetActiveTab(tab)
    \/ \E res \in Resources : Refresh(res)
    \/ \E res \in Resources : TryAgain(res)
    \/ Focus
    \/ Tick
    \/ \E k \in DOMAIN cache : Resolve(k)
    \/ \E k \in DOMAIN cache : ResolveSuperseded(k)

Spec == Init /\ [][Next]_vars

-----------------------------------------------------------------------------
(* The functions called on their own, on inputs the application need not
   produce: fetchJson of both files and the activity generator *)

appVars == <<token, user, error, isLoading, pending, activeTab,
             now, cache, issued, logins, calls, ev, env, legacy>>

CallFetchJson ==
    /\ \E resp \in ProbeResponses, tok \in ProbeTokens :
          probe' = [fn |-> "fetchJson", resp |-> resp, tok |-> tok,
                    out |-> fetchJsonCall(resp, tok)]
    /\ UNCHANGED appVars

CallLegacyFetchJson ==
    /\ \E resp \in ProbeResponses :
          probe' = [fn |-> "legacyFetchJson", resp |-> resp, tok |-> NoToken,
                    out |-> legacyFetchJsonCall(resp)]
    /\ UNCHANGED appVars

CallActivityGenerator ==
    /\ \E rnd \in ProbeRandomSources :
          probe' = [fn |-> "activity", resp |-> NoProbe.resp, tok |-> NoToken,
                    out |-> ActivityData(rnd)]
    /\ UNCHANGED appVars

FunctionsNext ==
    \/ CallFetchJson
    \/ CallLegacyFetchJson
    \/ CallActivityGenerator

Functions == Init /\ [][FunctionsNext]_vars

-----------------------------------------------------------------------------
(* The hand-written Dashboard of the second file: users, loading and error
   are its three state hooks; awaiting is the number of fetchUsers calls
   suspended at their await; last is the history of the last step. *)

LegacyInitial ==
    [users |-> <<>>, loading |-> TRUE, error |-> None, awaiting |-> 0,
     last |-> [op |-> "render", resp |-> NoProbe.resp]]

(* fetchUsers up to its await: setLoading(true); setError(null) *)
fetchUsersStart(st) ==
    [st EXCEPT !.loading = TRUE, !.error = None, !.awaiting = @ + 1]

(* fetchUsers after its await, fetchJson having settled with out:
   setUsers(data), or setError(err.message) in catch; setLoading(false) in
   finally. *)
fetchUsersNoFinallyMutant(st, out) ==
    IF out.threw
    THEN [st EXCEPT !.error = Some(out.message), !.awaiting = @ - 1]
    ELSE [st EXCEPT !.users = out.value, !.loading = FALSE, !.awaiting = @ - 1]

fetchUsersSettle(st, out) ==
    IF out.threw
    THEN [st EXCEPT !.error = Some(out.message), !.loading = FALSE,
                    !.awaiting = @ - 1]
    ELSE [st EXCEPT !.users = out.value, !.loading = FALSE, !.awaiting = @ - 1]

(* Dashboard: what the content area renders. *)
LegacyPanel(st) ==
    IF st.loading /\ Len(st.users) = 0 THEN "loading"
    ELSE IF st.error # None /\ Truthy(The(st.error)) THEN "error"
    ELSE IF Len(st.users) = 0 THEN "empty"
    ELSE "list"

LegacyStep(op, st) ==
    /\ legacy' = [st EXCEPT !.last = [op |-> op, resp |-> NoProbe.resp]]
    /\ UNCHANGED <<token, user, error, isLoading, pending, activeTab,
                   now, cache, issued, logins, calls, ev, env, probe>>

(* The Dashboard mounts; useEffect(() => { fetchUsers() }, []) *)
LegacyMount ==
    /\ legacy = <<>>
    /\ LegacyStep("mount", fetchUsersStart(LegacyInitial))

(* The Refresh button: onClick={fetchUsers} disabled={loading} *)
LegacyRefresh ==
    /\ legacy # <<>>
    /\ ~legacy.loading
    /\ LegacyStep("refresh", fetchUsersStart(legacy))

(* Try Again of ErrorState: onRetry={fetchUsers} *)
LegacyTryAgain ==
    /\ legacy # <<>>
    /\ LegacyPanel(legacy) = "error"
    /\ LegacyStep("tryAgain", fetchUsersStart(legacy))

(* The request of a suspended fetchUsers is answered. *)
LegacyResolve ==
    /\ legacy # <<>>
    /\ legacy.awaiting > 0
    /\ \E resp \in ProbeResponses :
          legacy' = [fetchUsersSettle(legacy, legacyFetchJson(resp)) EXCEPT
                        !.last = [op |-> "settle", resp |-> resp]]
    /\ UNCHANGED <<token, user, error, isLoading, pending, activeTab,
                   now, cache, issued, logins, calls, ev, env, probe>>

LegacyNext ==
    \/ LegacyMount
    \/ LegacyRefresh
    \/ LegacyTryAgain
    \/ LegacyResolve

Legacy == Init /\ [][LegacyNext]_vars

-----------------------------------------------------------------------------
(* Properties of the session store *)

Range(seq) == { seq[i] : i \in 1 .. Len(seq) }

(* n is the part of s before its first '@' (all of s when it has none). *)
IsPartBeforeFirstAt(n, s) ==
    /\ Len(n) <= Len(s)
    /\ SubSeq(s, 1, Len(n)) = n
    /\ "@" \notin Range(n)
    /\ Len(n) = Len(s) \/ s[Len(n) + 1] = "@"

(* C1: login(contact, secret) succeeds exactly when both inputs are
   non-empty, and a successful call leaves a non-empty token and a profile
   whose contact field is the input contact and whose display name is the
   part of the contact before its first '@'. *)
C1_LoginSucceedsIffBothNonEmpty ==
    ev.op = "login" =>
        LET res == The(ev.result)
        IN  /\ res.success <=> (ev.em # EmptyString /\ ev.pw # EmptyString)
            /\ res.success =>
                /\ token # NoToken
                /\ Len(token) > 0
                /\ user # None
                /\ The(user).email = ev.em
                /\ IsPartBeforeFirstAt(The(user).name, ev.em)

C1_Witness ==
    /\ ev.op = "login"
    /\ The(ev.result).success
    /\ "@" \in Range(ev.em)
    /\ user # None
    /\ The(user).name = <<"a">>
    /\ token # NoToken

(* C2: a login call with an empty field returns the failure value
   {success: false, error} (the caller reads it and goes on: the page it
   belongs to shows the message and stops loading), and the session is left
   as it was: a cleared session has no token and no profile afterwards. *)
C2_FailedLoginIsAValue ==
    (ev.op = "login" /\ (ev.em = EmptyString \/ ev.pw = EmptyString)) =>
        /\ ev.result = Some([success |-> FALSE, error |-> Some(InvalidCredentials)])
        /\ token = ev.tokBefore
        /\ ev.tokBefore = NoToken => (token = NoToken /\ user = None)
        /\ ev.live => (error = InvalidCredentials /\ ~isLoading)

C2_Witness ==
    /\ ev.op = "login"
    /\ ev.em # EmptyString
    /\ ev.pw = EmptyString
    /\ ev.live
    /\ error = InvalidCredentials
    /\ token = NoToken
    /\ user = None

(* C3: logout clears token and profile from every reachable session state,
   logged in or not, and after the Logout button both are absent. *)
C3_LogoutClearsSession ==
    /\ logout([token |-> token, user |-> user]) = [token |-> NoToken, user |-> None]
    /\ ev.op = "logout" => (token = NoToken /\ user = None)

C3_Witness ==
    /\ ev.op = "logout"
    /\ ev.tokBefore # NoToken
    /\ token = NoToken
    /\ user = None

(* C4: in every state a consumer can observe, the token is defined exactly
   when the profile is. *)
C4_TokenIffProfile == (token # NoToken) <=> (user # None)

C4_Witness ==
    /\ logins = 2
    /\ ev.op = "login"
    /\ ev.tokBefore = NoToken
    /\ token # NoToken
    /\ user # None

-----------------------------------------------------------------------------
(* Properties of the cached queries *)

(* C5: the token gates the queries.  A producer is only ever invoked while a
   token is present, for a key of that token; without a token no query is
   subscribed; with a token every mounted view's query is subscribed and has
   been started. *)
C5_TokenGatesQueries ==
    /\ \A k \in Range(calls) : token # NoToken /\ k[2] = token
    /\ token = NoToken => Subscriptions(token, activeTab) = {}
    /\ token # NoToken =>
          \A comp \in Mounted(token, activeTab) :
              /\ \E p \in Subscriptions(token, activeTab) : p[1] = comp
              /\ \A p \in Subscriptions(token, activeTab) :
                    p[1] = comp => Entry(cache, p[2]).status # "idle"

C5_Witness ==
    /\ token = NoToken
    /\ ev.op = "focus"
    /\ calls = <<>>
    /\ \E k \in DOMAIN cache : cache[k].data # None

(* C6: the token is part of the cache key.  Every cached value was fetched
   with the token of the key it is stored under, so the value a view reads
   under the current token was fetched under that token, whenever its
   response arrived; and a login that mints a token not used before finds no
   cached value under it: every query of the new session is empty and, if
   subscribed, loading. *)
C6_CacheKeyedByToken ==
    /\ \A k \in DOMAIN cache :
          cache[k].data # None => cache[k].fetchedUnder = k[2]
    /\ token # NoToken =>
          \A res \in Resources :
              LET e == Entry(cache, QueryKey(res, token))
              IN  e.data # None => e.fetchedUnder = token
    /\ (ev.op = "login" /\ The(ev.result).success /\ ev.fresh) =>
          \A res \in Resources :
              LET e == Entry(cache, QueryKey(res, token))
              IN  e.data = None /\ e.status \in {"idle", "loading"}

(* A response of the first session is stored after the second login, while
   the second session, under another token, has its own value. *)
C6_Witness ==
    /\ logins = 2
    /\ token # NoToken
    /\ ev.op = "settle"
    /\ ev.arg = "users"
    /\ Entry(cache, QueryKey("users", token)).data # None
    /\ \E k \in DOMAIN cache :
          /\ k[1] = "users"
          /\ k[2] # token
          /\ cache[k].data # None
          /\ cache[k].data # Entry(cache, QueryKey("users", token)).data

(* Subscriptions and focus events share the request an entry awaits: the
   entry never awaits more than one producer call, no step invokes the
   producer of a key twice, and Dashboard and UsersTab subscribe to the same
   key, so mounting both makes one call. *)
SubscriptionsShareOneRequest ==
    /\ \A k \in DOMAIN cache : cache[k].inflight <= 1
    /\ \A i, j \in 1 .. Len(calls) : i # j => calls[i] # calls[j]
    /\ token # NoToken =>
          QueryKey(HookOf("Dashboard"), token) = QueryKey(HookOf("UsersTab"), token)

(* C7: for any single cache key at most one producer call is in flight at
   any time, the calls an explicit refetch has replaced and that have not
   settled yet included; and concurrent subscriptions to a key share the
   request in flight. *)
C7_OneProducerCallInFlight ==
    /\ \A k \in DOMAIN cache : cache[k].inflight + cache[k].superseded <= 1
    /\ SubscriptionsShareOneRequest

(* The freshness thresholds the specification states, in ms. *)
FreshnessThreshold(res) == IF res = "users" THEN 30000 ELSE 60000

IsFresh(e, res, t) == e.data # None /\ t - e.updatedAt < FreshnessThreshold(res)

(* C8: a subscription to a key whose cached value is younger than its
   threshold (30 s for users, 60 s for sales and activity) invokes no
   producer: the value stays as cached. *)
C8_FreshSubscriptionDoesNotFetch ==
    \A k \in ev.subs :
        IsFresh(Entry(cache, k), k[1], now) => k \notin Range(calls)

(* The sales panel is remounted 30 s or more after its value was fetched. *)
C8_Witness ==
    /\ ev.op = "setActiveTab"
    /\ \E k \in ev.subs :
          /\ k[1] = "sales"
          /\ cache[k].status = "success"
          /\ now - cache[k].updatedAt >= 30000
          /\ IsFresh(cache[k], "sales", now)
          /\ ~isFetching(cache[k])
    /\ calls = <<>>

(* Stale-while-revalidate over one step, for the keys of a trigger: an entry
   that holds a value and is to be refetched is, after the step, in flight
   with isRefetching true and the same value, and its producer was invoked by
   the step unless a request was already in flight. *)
Revalidates(k) ==
    LET e == Entry(cache, k)
        f == Entry(cache', k)
    IN  e.data # None =>
            /\ isRefetching(f)
            /\ f.data = e.data
            /\ ~isFetching(e) => k \in Range(calls')

(* While a refetch stays in flight the cached value stays. *)
ValueKeptInFlight ==
    \A k \in DOMAIN cache :
        (isRefetching(cache[k]) /\ isFetching(cache'[k])) =>
            cache'[k].data = cache[k].data

RefetchTriggers ==
    /\ ev'.op \in {"refresh", "tryAgain"} => Revalidates(QueryKey(ev'.arg, token))
    /\ ev'.op \in {"setActiveTab", "login"} =>
          \A k \in ev'.subs :
              ~IsFresh(Entry(cache, k), k[1], now) => Revalidates(k)

(* C9 as stated: every window-focus regain refetches the observed entries. *)
C9_AsStated ==
    [][/\ RefetchTriggers
       /\ ev'.op = "focus" =>
             \A k \in ObservedKeys(token, activeTab) : Revalidates(k)
       /\ ValueKeptInFlight]_vars

(* C9, amended: on a subscription past the freshness threshold, on an
   explicit refetch, or on window-focus regain while the entry is past its
   freshness threshold, a fetch is in flight with isRefetching true (a new
   one unless one was in flight already), and the cached value stays visible
   throughout; a focus regain does not refetch an entry that is still fresh. *)
C9_StaleWhileRevalidate ==
    [][/\ RefetchTriggers
       /\ ev'.op = "focus" =>
             \A k \in ObservedKeys(token, activeTab) :
                 IF IsFresh(Entry(cache, k), k[1], now)
                 THEN k \notin Range(calls')
                 ELSE Revalidates(k)
       /\ ValueKeptInFlight]_vars

(* The window regains focus over a stale users value: it is refetched, and
   shown meanwhile. *)
C9_Witness ==
    /\ ev.op = "focus"
    /\ \E k \in Range(calls) :
          /\ k[1] = "users"
          /\ isRefetching(cache[k])
          /\ cache[k].data # None
          /\ now - cache[k].updatedAt >= 30000

(* C10 as stated: a value only with status success. *)
C10_AsStated ==
    \A k \in DOMAIN cache : cache[k].data # None => cache[k].status = "success"

(* C10, amended: no idle or loading entry carries a value and a success entry
   always does; an entry in error carries the value of its last success, if
   it had one: a refetch that fails keeps the previous value. *)
C10_ValueOnlyAfterSuccess ==
    \A k \in DOMAIN cache :
        /\ cache[k].data # None => cache[k].status \in {"success", "error"}
        /\ cache[k].status = "success" => cache[k].data # None
        /\ cache[k].data # None => cache[k].error = None \/ cache[k].status = "error"

(* The refetch of a users list on screen has failed, retries included:
   status error, value kept. *)
C10_Witness ==
    \E k \in ObservedKeys(token, activeTab) :
        /\ cache[k].status = "error"
        /\ cache[k].failureCount = RetryLimit + 1
        /\ cache[k].data # None
        /\ cache[k].error # None
        /\ ~isFetching(cache[k])

(* The steps in which a producer may be invoked according to the
   specification: a subscription, an explicit refetch, a focus event. *)
TriggerOps == {"login", "setActiveTab", "refresh", "tryAgain", "focus"}

(* A first subscription: an idle entry goes to loading, with one producer call. *)
FirstSubscriptionLoads ==
    \A k \in ev'.subs :
        Entry(cache, k).status = "idle" =>
            /\ cache'[k].status = "loading"
            /\ cache'[k].inflight = 1
            /\ Cardinality({ i \in 1 .. Len(calls') : calls'[i] = k }) = 1

(* C11 as stated: a producer is only invoked by a subscription, an explicit
   refetch or a focus event, never by the cache on its own after a failure;
   and the settling of the single attempt ends the fetch, in success or in
   error. *)
C11_AsStated ==
    [][/\ FirstSubscriptionLoads
       /\ calls' # <<>> => ev'.op \in TriggerOps
       /\ ev'.op = "settle" =>
             \A k \in DOMAIN cache :
                 cache'[k] # cache[k] =>
                     /\ ~isFetching(cache'[k])
                     /\ cache'[k].status \in {"success", "error"}]_vars

(* What the cache does instead: a failure of the producer is retried, up to
   RetryLimit times while the query is still observed, and only then stored
   as the error; a success stores the value and stamps updatedAt.  Apart from
   these retries no producer is invoked but by a subscription, an explicit
   refetch or a focus event. *)
FirstLoadRetriesThenSettles ==
    [][/\ FirstSubscriptionLoads
       /\ calls' # <<>> => ev'.op \in TriggerOps \cup {"settle"}
       /\ ev'.op = "settle" =>
             \A k \in DOMAIN cache :
                 cache'[k] # cache[k] =>
                     \/ /\ cache'[k].status = "success"
                        /\ cache'[k].data # None
                        /\ cache'[k].error = None
                        /\ cache'[k].updatedAt = now
                        /\ ~isFetching(cache'[k])
                        /\ calls' = <<>>
                     \/ /\ isFetching(cache'[k])
                        /\ cache'[k].status = cache[k].status
                        /\ cache'[k].data = cache[k].data
                        /\ cache'[k].failureCount = cache[k].failureCount + 1
                        /\ cache'[k].failureCount <= RetryLimit
                        /\ ~cache[k].retryCancelled
                        /\ calls' = <<k>>
                     \/ /\ cache'[k].status = "error"
                        /\ cache'[k].error # None
                        /\ cache'[k].data = cache[k].data
                        /\ ~isFetching(cache'[k])
                        /\ \/ cache'[k].failureCount = RetryLimit + 1
                           \/ cache[k].retryCancelled
                        /\ calls' = <<>>]_vars

(* C12: one invocation of fetchJson sends one request; a response whose
   status is not successful (outside 200..299) makes it fail with a message
   that contains the status code, the body neither parsed nor returned; it
   returns a value only for a successful response, the parsed body; and the
   request carries the Authorization header, Bearer and the token, exactly
   when a token was passed. *)
C12_FetchJsonContract ==
    probe.fn \in {"fetchJson", "legacyFetchJson"} =>
        LET st == probe.resp.status
            out == probe.out.result
            reqs == probe.out.requests
            successful == st >= 200 /\ st < 300
        IN  /\ Len(reqs) = 1
            /\ ~successful =>
                  /\ out.threw
                  /\ Len(out.message) = 2 /\ out.message[2] = st
                  /\ out.value = <<>>
            /\ ~out.threw =>
                  /\ successful
                  /\ \/ probe.resp.text = "[]" /\ out.value = <<>>
                     \/ probe.resp.text = "[{id:1}]" /\ out.value = <<[id |-> 1]>>
                     \/ /\ probe.resp.text = "[{id:1},{id:2}]"
                        /\ out.value = <<[id |-> 1], [id |-> 2]>>
            /\ (successful /\ probe.resp.text \in {"<html>", ""}) =>
                  out.threw /\ out.message = <<"SyntaxError">>
            /\ "Authorization" \in DOMAIN reqs[1].headers
                  <=> (probe.fn = "fetchJson" /\ probe.tok # NoToken)
            /\ "Authorization" \in DOMAIN reqs[1].headers =>
                  reqs[1].headers["Authorization"] = <<"Bearer ", probe.tok>>

(* fetchJson called with a token and answered 404 with a JSON body. *)
C12_Witness ==
    /\ probe.fn = "fetchJson"
    /\ probe.tok # NoToken
    /\ probe.resp = [status |-> 404, text |-> "[]"]
    /\ probe.out.result.threw
    /\ "Authorization" \in DOMAIN probe.out.requests[1].headers

(* C13: every result of the activity generator has exactly 84 cells, one for
   each pair of a week in 0..11 and a day in 0..6, each with the name of its
   day from Sun..Sat and an integer value in 0..99, the cells of day 0 and
   day 6 with a value in 0..29. *)
C13_ActivityGrid ==
    probe.fn = "activity" =>
        LET cells == probe.out.data
            names == <<"Sun", "Mon", "Tue", "Wed", "Thu", "Fri", "Sat">>
        IN  /\ Len(cells) = 84
            /\ \A w \in 0 .. 11, d \in 0 .. 6 :
                  Cardinality({ i \in 1 .. Len(cells) :
                                  cells[i].week = w /\ cells[i].day = d }) = 1
            /\ \A i \in 1 .. Len(cells) :
                  /\ cells[i].week \in 0 .. 11
                  /\ cells[i].day \in 0 .. 6
                  /\ cells[i].dayName = names[cells[i].day + 1]
                  /\ cells[i].value \in 0 .. 99
                  /\ cells[i].day \in {0, 6} => cells[i].value \in 0 .. 29

(* A result with the largest values: 29 on a weekend day, 99 on a weekday. *)
C13_Witness ==
    /\ probe.fn = "activity"
    /\ \E i \in 1 .. Len(probe.out.data) :
          probe.out.data[i].day \in {0, 6} /\ probe.out.data[i].value = 29
    /\ \E i \in 1 .. Len(probe.out.data) :
          probe.out.data[i].day \notin {0, 6} /\ probe.out.data[i].value = 99
    /\ \E i \in 1 .. Len(probe.out.data) : probe.out.data[i].value = 0

(* The same for the Dashboard of the second file: after a fetch that
   loaded an empty list (not loading, no error) the content area shows
   "No users found"; the loading state comes first (while no user is
   loaded), then the error, then the empty state, then the grid. *)
LegacyEmptyListIsShown ==
    legacy # <<>> =>
        LET panel == LegacyPanel(legacy)
        IN  /\ (~legacy.loading /\ legacy.error = None /\ legacy.users = <<>>) =>
                  panel = "empty"
            /\ panel = "loading" <=> (legacy.loading /\ legacy.users = <<>>)
            /\ panel = "error" <=> (panel # "loading" /\ legacy.error # None)
            /\ panel = "empty" <=>
                  (~legacy.loading /\ legacy.error = None /\ legacy.users = <<>>)
            /\ panel = "list" <=> (legacy.error = None /\ legacy.users # <<>>)

(* C14: when the users query has succeeded with an empty list (not loading,
   not in error) the users panel shows "No users found", not the error panel
   and not the grid; the panel shows loading first, then the error, then the
   empty state, then the list. *)
C14_EmptyListIsShown ==
    /\ "UsersTab" \in Mounted(token, activeTab) =>
          LET e == Entry(cache, QueryKey("users", token))
              panel == UsersTabPanel(e)
          IN  /\ (e.status = "success" /\ e.data = Some(<<>>)) => panel = "empty"
              /\ panel = "loading" <=> e.status = "loading"
              /\ panel = "error" <=> e.status = "error"
              /\ panel = "empty" <=> (e.status = "success" /\ e.data = Some(<<>>))
              /\ panel = "list" <=>
                    (e.status = "success" /\ e.data # None /\ The(e.data) # <<>>)
    /\ LegacyEmptyListIsShown

(* The users panel is on screen and the list has loaded empty. *)
C14_Witness ==
    /\ ev.op = "settle"
    /\ "UsersTab" \in Mounted(token, activeTab)
    /\ cache[QueryKey("users", token)].status = "success"
    /\ cache[QueryKey("users", token)].data = Some(<<>>)
    /\ UsersTabPanel(cache[QueryKey("users", token)]) = "empty"

(* The same state of the Dashboard of the second file. *)
LegacyEmptyListWitness ==
    /\ legacy # <<>>
    /\ legacy.last.op = "settle"
    /\ legacy.users = <<>>
    /\ LegacyPanel(legacy) = "empty"

(* C15: while a submission is pending on the login page no second one
   starts, by the button or by the Enter key, so at most one call of
   handleSubmit is suspended at a time; and once the dashboard is shown the
   session token changes only by logout. *)
C15_OneSubmissionAtATime ==
    [][/\ (isLoading /\ pending # <<>>) =>
             ev'.op \notin {"clickSignIn", "pressEnter"}
       /\ Len(pending') <= 1
       /\ (token # NoToken /\ token' # token) => ev'.op = "logout"]_vars

(* A response makes fetchJson fail: a status outside 200..299, or a body
   that is not JSON. *)
FailsToLoad(resp) ==
    \/ resp.status < 200
    \/ resp.status > 299
    \/ resp.text \notin {"[]", "[{id:1}]", "[{id:1},{id:2}]"}

(* C16: in the hand-written Dashboard a fetchUsers that starts (on mount, by
   Refresh or by Try Again) sets loading and clears error; one that
   completes leaves loading false, with error non-null exactly when the
   fetch failed; a failed fetch leaves the loaded user list as it was, a
   successful one replaces it. *)
C16_FetchUsersStates ==
    [][legacy' # legacy =>
          /\ legacy'.last.op \in {"mount", "refresh", "tryAgain"} =>
                /\ legacy'.loading
                /\ legacy'.error = None
                /\ legacy'.users = IF legacy = <<>> THEN <<>> ELSE legacy.users
          /\ legacy'.last.op = "settle" =>
                /\ ~legacy'.loading
                /\ legacy'.error # None <=> FailsToLoad(legacy'.last.resp)
                /\ FailsToLoad(legacy'.last.resp) => legacy'.users = legacy.users
                /\ ~FailsToLoad(legacy'.last.resp) =>
                      Len(legacy'.users) \in 0 .. 2]_vars

(* A refresh of a loaded list was answered 404: the list is kept, the error
   set, loading over. *)
C16_Witness ==
    /\ legacy # <<>>
    /\ legacy.last.op = "settle"
    /\ legacy.last.resp.status = 404
    /\ legacy.users = <<[id |-> 1], [id |-> 2]>>
    /\ legacy.error = Some(<<"HTTP ", 404>>)
    /\ ~legacy.loading
    /\ legacy.awaiting = 0

====
